---- MODULE Spec2Model ----
(***************************************************************************)
(* Model of charmhelpers/contrib/ssl/files/check_ssl_certificate.py: the   *)
(* Nagios check that classifies the expiry of an x509 certificate.         *)
(*                                                                         *)
(* Text (str, decoded bytes, printed output) is a sequence of string       *)
(* fragments; concatenation is \o.  A newline is the fragment NL, a byte   *)
(* sequence that is not valid UTF-8 holds the fragment BadByte.            *)
(***************************************************************************)
EXTENDS Integers, Sequences, FiniteSets, TLC

VARIABLES
    pc,             \* position of the run
    mode,           \* "script" (run as __main__) or "import" (function called by an importer)
    args,           \* the module global `args` (Unset until parse_args assigns it)
    cert_filename,  \* parameters of the check_cert_expiry call
    warn,
    crit,
    remaining,      \* seconds of validity the certificate has left (environment)
    calls,          \* history: one record per x509_checkend invocation
    status,         \* returned severity, NoStatus before the return
    msg,            \* returned message
    exc,            \* exception propagating out of check_cert_expiry, or NoExc
    stdout,         \* what the process wrote on stdout
    exitCode        \* process exit code, NoExit while running

vars == <<pc, mode, args, cert_filename, warn, crit, remaining, calls,
          status, msg, exc, stdout, exitCode>>

----------------------------------------------------------------------------
(* Bounds of the model *)

MaxDays == 2

----------------------------------------------------------------------------
(* Program constants *)

STATUS_OK == 0
STATUS_WARN == 1
STATUS_CRIT == 2
STATUS_UNKNOWN == 3

SecondsPerDay == 86400

----------------------------------------------------------------------------
(* Values of the model *)

Unset == "<unset>"
NoStatus == -1
NoExit == -1
NoExc == "none"
NoMessage == <<>>

NL == "\n"
BadByte == "<0xFF>"

Paths == {"/etc/ssl/a.pem", "/etc/ssl/b.pem"}
Days == 0..MaxDays

\* remaining validity: on, just below and between the day boundaries
Remainings ==
    {d * SecondsPerDay : d \in 0..(MaxDays + 1)}
        \cup {d * SecondsPerDay - 1 : d \in 1..(MaxDays + 1)}

\* what the tool may leave on stderr (bytes)
StderrSamples ==
    { <<>>,
      <<"unable to load certificate", NL>>,
      <<"Can't open cert for reading, No such file or directory", NL,
        "unable to load certificate", NL>>,
      <<"WARNING: can't open config file", NL>>,
      <<BadByte, NL>> }

\* return codes of the child: 0, 1, another failure code, killed by a signal
ReturnCodes == {0, 1, 2, -9}

OSErrorText == <<"[Errno 2] No such file or directory: 'openssl'">>
CommunicateErrorText == <<"[Errno 32] Broken pipe">>

----------------------------------------------------------------------------
(* The external tool: openssl x509 -checkend <time> -in <cert_filename> *)

\* the exit code of an undisturbed run: 1 when the certificate expires within
\* `time` seconds, 0 when it does not
CheckEnd(rem, time) == IF rem < time THEN 1 ELSE 0

\* every way the Popen/communicate pair can end for a certificate with `rem`
\* seconds left: the spawn fails, communicate fails, or the tool runs and
\* leaves a return code and bytes on stderr.  A run that ends with code 0 or 1
\* and a silent stderr is an answer, and the answer is the true one.
ToolOutcomes(rem, time) ==
    { [kind |-> "spawn_error", returncode |-> 0, stderr |-> <<>>, err |-> OSErrorText],
      [kind |-> "communicate_error", returncode |-> 0, stderr |-> <<>>,
       err |-> CommunicateErrorText] }
    \cup
    { o \in [kind : {"ran"}, returncode : ReturnCodes, stderr : StderrSamples,
             err : {<<>>}] :
        (o.stderr = <<>> /\ o.returncode \in {0, 1})
            => o.returncode = CheckEnd(rem, time) }

----------------------------------------------------------------------------
(* x509_checkend *)

NoResult == -1

\* bytes.decode('UTF-8') raises UnicodeDecodeError on an invalid sequence
Decodable(bytes) == \A i \in 1..Len(bytes) : bytes[i] # BadByte

\* bytes.decode('UTF-8') of a valid sequence: the text of the valid fragments
Decode(bytes) == [i \in 1..Len(bytes) |-> bytes[i]]

x509_checkend(o) ==
    IF o.kind # "ran"
    THEN \* except Exception as e
         [raised |-> NoExc, result |-> 2, message |-> o.err]
    ELSE IF o.returncode = 1
    THEN IF ~Decodable(o.stderr)
         THEN \* the decode is outside the try block
              [raised |-> "UnicodeDecodeError", result |-> NoResult,
               message |-> NoMessage]
         ELSE IF Decode(o.stderr) # <<>>
         THEN [raised |-> NoExc, result |-> 2, message |-> Decode(o.stderr)]
         ELSE [raised |-> NoExc, result |-> 1, message |-> NoMessage]
    ELSE [raised |-> NoExc, result |-> 0, message |-> NoMessage]

----------------------------------------------------------------------------
(* check_cert_expiry *)

\* faulty variant of Horizon: the window is one second too long, so a
\* certificate that lasts exactly `days` days counts as expiring
HorizonOffByOne(days) == days * SecondsPerDay + 1

\* the time handed to x509_checkend for a threshold in days
Horizon(days) == days * SecondsPerDay

CritMsg(f, c) ==
    <<"CRITICAL: ", "Certificate ", f, " due to expire in less than ",
      ToString(c), " days.">>

UnknownMsg(f, reason) ==
    <<"UNKNOWN: ", "checking certificate ", f, " failed with ">> \o reason

WarnMsg(f, w) ==
    <<"WARNING: ", "Certificate ", f, " due to expire in less than ",
      ToString(w), " days.">>

OkMsg(f, w) ==
    <<"OK: ", "Certificate ", f, " has more than ", ToString(w),
      " days before expiry">>

\* faulty variant of CritBranch: the expiring branch reports the warning
\* severity and text
CritBranchReportsWarning(check, f, c) ==
    IF check.result = 1
    THEN [returns |-> TRUE, status |-> STATUS_WARN, msg |-> WarnMsg(f, c)]
    ELSE IF check.result = 2
    THEN [returns |-> TRUE, status |-> STATUS_UNKNOWN,
          msg |-> UnknownMsg(f, check.message)]
    ELSE [returns |-> FALSE, status |-> NoStatus, msg |-> NoMessage]

\* faulty variant of CritBranch: an indeterminate probe is not tested for and
\* the call goes on to the warning horizon
CritBranchIgnoresIndeterminate(check, f, c) ==
    IF check.result = 1
    THEN [returns |-> TRUE, status |-> STATUS_CRIT, msg |-> CritMsg(f, c)]
    ELSE [returns |-> FALSE, status |-> NoStatus, msg |-> NoMessage]

\* faulty variant of CritBranch: an expiring certificate does not end the call
\* and the warning horizon is probed as well
CritBranchNoShortCircuit(check, f, c) ==
    IF check.result = 2
    THEN [returns |-> TRUE, status |-> STATUS_UNKNOWN,
          msg |-> UnknownMsg(f, check.message)]
    ELSE [returns |-> FALSE, status |-> NoStatus, msg |-> NoMessage]

\* lines 42-47: what follows the probe at the critical horizon
CritBranch(check, f, c) ==
    IF check.result = 1
    THEN [returns |-> TRUE, status |-> STATUS_CRIT, msg |-> CritMsg(f, c)]
    ELSE IF check.result = 2
    THEN [returns |-> TRUE, status |-> STATUS_UNKNOWN,
          msg |-> UnknownMsg(f, check.message)]
    ELSE [returns |-> FALSE, status |-> NoStatus, msg |-> NoMessage]

\* faulty variant of WarnBranch: an indeterminate probe is reported as UNKNOWN,
\* as it is at the critical horizon
WarnBranchIndeterminateUnknown(check, f, w, g) ==
    IF check.result = 1
    THEN IF g = Unset
         THEN [raised |-> "NameError", status |-> NoStatus, msg |-> NoMessage]
         ELSE [raised |-> NoExc, status |-> STATUS_WARN, msg |-> WarnMsg(g, w)]
    ELSE IF check.result = 2
    THEN [raised |-> NoExc, status |-> STATUS_UNKNOWN,
          msg |-> UnknownMsg(f, check.message)]
    ELSE [raised |-> NoExc, status |-> STATUS_OK, msg |-> OkMsg(f, w)]

\* lines 49-54: what follows the probe at the warning horizon; g is the value
\* of the global args.cert_filename, which line 50 reads
WarnBranch(check, f, w, g) ==
    IF check.result = 1
    THEN IF g = Unset
         THEN [raised |-> "NameError", status |-> NoStatus, msg |-> NoMessage]
         ELSE [raised |-> NoExc, status |-> STATUS_WARN, msg |-> WarnMsg(g, w)]
    ELSE [raised |-> NoExc, status |-> STATUS_OK, msg |-> OkMsg(f, w)]

\* one x509_checkend invocation, as the history records it
CallRecord(time, o) ==
    [time |-> time, outcome |-> o, check |-> x509_checkend(o)]

----------------------------------------------------------------------------
(* __main__ *)

\* faulty variant of ExitCodeOf: the UNKNOWN branch is missing
ExitCodeOfWithoutUnknown(s) ==
    IF s = STATUS_CRIT THEN STATUS_CRIT
    ELSE IF s = STATUS_WARN THEN STATUS_WARN
    ELSE 0

ExitCodeOf(s) ==
    IF s = STATUS_CRIT THEN STATUS_CRIT
    ELSE IF s = STATUS_WARN THEN STATUS_WARN
    ELSE IF s = STATUS_UNKNOWN THEN STATUS_UNKNOWN
    ELSE 0

\* print(msg): the text and the newline print appends
Printed(m) == m \o <<NL>>

----------------------------------------------------------------------------
(* State machine *)

Init ==
    /\ pc = "start"
    /\ mode = Unset
    /\ args = Unset
    /\ cert_filename = Unset
    /\ warn = 0
    /\ crit = 0
    /\ remaining \in Remainings
    /\ calls = <<>>
    /\ status = NoStatus
    /\ msg = NoMessage
    /\ exc = NoExc
    /\ stdout = <<>>
    /\ exitCode = NoExit

\* lines 79-89: run as a script; parse_args binds the global args and the
\* call passes its three attributes
main_parse_args ==
    /\ pc = "start"
    /\ \E f \in Paths, w \in Days, c \in Days :
        /\ args' = f
        /\ cert_filename' = f
        /\ warn' = w
        /\ crit' = c
    /\ mode' = "script"
    /\ pc' = "crit_probe"
    /\ UNCHANGED <<remaining, calls, status, msg, exc, stdout, exitCode>>

\* the module imported and check_cert_expiry called by the importer: the
\* global args is whatever the importer left in the module, normally nothing
imported_call ==
    /\ pc = "start"
    /\ \E f \in Paths, w \in Days, c \in Days, g \in {Unset} \cup Paths :
        /\ args' = g
        /\ cert_filename' = f
        /\ warn' = w
        /\ crit' = c
    /\ mode' = "import"
    /\ pc' = "crit_probe"
    /\ UNCHANGED <<remaining, calls, status, msg, exc, stdout, exitCode>>

\* lines 41-47
check_cert_expiry_crit ==
    /\ pc = "crit_probe"
    /\ \E o \in ToolOutcomes(remaining, Horizon(crit)) :
        LET call == CallRecord(Horizon(crit), o)
            check == call.check
            br == CritBranch(check, cert_filename, crit)
        IN  /\ calls' = Append(calls, call)
            /\ IF check.raised # NoExc
               THEN /\ exc' = check.raised
                    /\ pc' = "raised"
                    /\ UNCHANGED <<status, msg>>
               ELSE IF br.returns
               THEN /\ status' = br.status
                    /\ msg' = br.msg
                    /\ pc' = "returned"
                    /\ UNCHANGED exc
               ELSE /\ pc' = "warn_probe"
                    /\ UNCHANGED <<status, msg, exc>>
    /\ UNCHANGED <<mode, args, cert_filename, warn, crit, remaining, stdout, exitCode>>

\* lines 48-54
check_cert_expiry_warn ==
    /\ pc = "warn_probe"
    /\ \E o \in ToolOutcomes(remaining, Horizon(warn)) :
        LET call == CallRecord(Horizon(warn), o)
            check == call.check
            br == WarnBranch(check, cert_filename, warn, args)
        IN  /\ calls' = Append(calls, call)
            /\ IF check.raised # NoExc
               THEN /\ exc' = check.raised
                    /\ pc' = "raised"
                    /\ UNCHANGED <<status, msg>>
               ELSE IF br.raised # NoExc
               THEN /\ exc' = br.raised
                    /\ pc' = "raised"
                    /\ UNCHANGED <<status, msg>>
               ELSE /\ status' = br.status
                    /\ msg' = br.msg
                    /\ pc' = "returned"
                    /\ UNCHANGED exc
    /\ UNCHANGED <<mode, args, cert_filename, warn, crit, remaining, stdout, exitCode>>

\* line 90
print_msg ==
    /\ pc = "returned"
    /\ mode = "script"
    /\ stdout' = stdout \o Printed(msg)
    /\ pc' = "printed"
    /\ UNCHANGED <<mode, args, cert_filename, warn, crit, remaining, calls,
                   status, msg, exc, exitCode>>

\* lines 91-98
sys_exit ==
    /\ pc = "printed"
    /\ exitCode' = ExitCodeOf(status)
    /\ pc' = "exited"
    /\ UNCHANGED <<mode, args, cert_filename, warn, crit, remaining, calls,
                   status, msg, exc, stdout>>

\* line 89: an exception leaves check_cert_expiry and nothing catches it; the
\* interpreter writes the traceback on stderr and exits with code 1
uncaught_exception ==
    /\ pc = "raised"
    /\ mode = "script"
    /\ exitCode' = 1
    /\ pc' = "exited"
    /\ UNCHANGED <<mode, args, cert_filename, warn, crit, remaining, calls,
                   status, msg, exc, stdout>>

Next ==
    \/ main_parse_args
    \/ imported_call
    \/ check_cert_expiry_crit
    \/ check_cert_expiry_warn
    \/ print_msg
    \/ sys_exit
    \/ uncaught_exception

Spec == Init /\ [][Next]_vars

----------------------------------------------------------------------------
(* Vocabulary of the properties *)

\* check_cert_expiry has returned or raised
CallOver == pc \in {"returned", "printed", "exited", "raised"}

\* the tool ran and answered: exit code 0 or 1, nothing on stderr
AnsweredCleanly(call) ==
    /\ call.outcome.kind = "ran"
    /\ call.outcome.stderr = <<>>
    /\ call.outcome.returncode \in {0, 1}

ProberAnswersWithoutError ==
    \A i \in 1..Len(calls) : AnsweredCleanly(calls[i])

\* the raw diagnostic text or exception description of an invocation
Reason(call) ==
    IF call.outcome.kind = "ran" THEN call.outcome.stderr ELSE call.outcome.err

\* the critical probe returned NotExpiring and the warning probe returned r
SecondProbeReturned(r) ==
    /\ CallOver
    /\ Len(calls) = 2
    /\ calls[1].check.raised = NoExc /\ calls[1].check.result = 0
    /\ calls[2].check.raised = NoExc /\ calls[2].check.result = r

\* number of lines in a text: one per newline
NumLines(text) == Cardinality({i \in 1..Len(text) : text[i] = NL})

Fragments(text) == {text[i] : i \in 1..Len(text)}

----------------------------------------------------------------------------
(* C1 *)

\* C1 as stated: with a prober that answers without error, a certificate with
\* less than crit days left yields CRITICAL (2) and the message
\* "Certificate <path> due to expire in less than <crit> days.", whatever the
\* order of warn and crit.
C1_Original ==
    (CallOver /\ ProberAnswersWithoutError /\ remaining < crit * 86400)
        => /\ exc = NoExc
           /\ status = 2
           /\ msg = <<"Certificate ", cert_filename,
                      " due to expire in less than ", ToString(crit), " days.">>

\* C1 amended: with a prober that answers without error, a certificate with
\* less than crit days left yields CRITICAL (2), whatever the order of warn and
\* crit, and the message is the claimed text behind the severity tag:
\* "CRITICAL: Certificate <path> due to expire in less than <crit> days."
C1_CriticalDominates ==
    (CallOver /\ ProberAnswersWithoutError /\ remaining < crit * 86400)
        => /\ exc = NoExc
           /\ status = 2
           /\ msg = <<"CRITICAL: ", "Certificate ", cert_filename,
                      " due to expire in less than ", ToString(crit), " days.">>
           /\ Len(calls) = 1

C1_Witness ==
    /\ CallOver /\ ProberAnswersWithoutError
    /\ remaining < crit * 86400
    /\ crit > warn
    /\ remaining >= warn * 86400
    /\ status = 2

----------------------------------------------------------------------------
(* C2 *)

\* C2 as stated: when the probe at the critical horizon is indeterminate the
\* result is UNKNOWN (3) for every warn, with the message
\* "checking certificate <path> failed with <reason>".
C2_Original ==
    (CallOver /\ Len(calls) >= 1 /\ calls[1].check.result = 2)
        => /\ exc = NoExc
           /\ status = 3
           /\ msg = <<"checking certificate ", cert_filename, " failed with ">>
                        \o Reason(calls[1])

\* C2 amended: when the probe at the critical horizon is indeterminate the
\* result is UNKNOWN (3) for every warn, and the message is the claimed text
\* behind the severity tag: "UNKNOWN: checking certificate <path> failed with
\* <reason>", <reason> being the raw stderr text or the exception description.
C2_IndeterminateIsUnknown ==
    (CallOver /\ Len(calls) >= 1 /\ calls[1].check.result = 2)
        => /\ exc = NoExc
           /\ status = 3
           /\ msg = <<"UNKNOWN: ", "checking certificate ", cert_filename,
                      " failed with ">> \o Reason(calls[1])
           /\ Len(calls) = 1

C2_Witness ==
    /\ CallOver
    /\ Len(calls) = 1
    /\ calls[1].check.result = 2
    /\ calls[1].outcome.kind = "ran"
    /\ Len(calls[1].outcome.stderr) > 2
    /\ warn > 0
    /\ status = 3

----------------------------------------------------------------------------
(* C3 *)

\* C3: when the critical probe returns NotExpiring and the warning probe
\* returns Expiring, the call returns normally with WARNING (1) and a message
\* whose text behind the severity tag is "Certificate <path> due to expire in
\* less than <warn> days.", <path> being the cert_filename argument.
C3_WarningNamesArgument ==
    SecondProbeReturned(1)
        => /\ exc = NoExc
           /\ status = 1
           /\ Len(msg) > 1
           /\ Tail(msg) = <<"Certificate ", cert_filename,
                            " due to expire in less than ", ToString(warn),
                            " days.">>

----------------------------------------------------------------------------
(* C4 *)

\* C4 as stated: with a prober that answers without error, a certificate that
\* outlives both horizons yields OK (0) and the message
\* "Certificate <path> has more than <warn> days before expiry".
C4_Original ==
    (CallOver /\ ProberAnswersWithoutError
        /\ remaining >= crit * 86400 /\ remaining >= warn * 86400)
        => /\ exc = NoExc
           /\ status = 0
           /\ msg = <<"Certificate ", cert_filename, " has more than ",
                      ToString(warn), " days before expiry">>

\* C4 amended: with a prober that answers without error, a certificate that
\* outlives both horizons yields OK (0), and the message is the claimed text
\* behind the severity tag: "OK: Certificate <path> has more than <warn> days
\* before expiry", naming warn and not crit.
C4_OutlivesBothIsOk ==
    (CallOver /\ ProberAnswersWithoutError
        /\ remaining >= crit * 86400 /\ remaining >= warn * 86400)
        => /\ exc = NoExc
           /\ status = 0
           /\ msg = <<"OK: ", "Certificate ", cert_filename, " has more than ",
                      ToString(warn), " days before expiry">>

C4_Witness ==
    /\ CallOver /\ ProberAnswersWithoutError
    /\ remaining = warn * 86400
    /\ remaining > crit * 86400
    /\ status = 0

----------------------------------------------------------------------------
(* C5 *)

\* C5: a run of the script in which check_cert_expiry returned exits with the
\* numeric code of the returned severity: OK 0, WARNING 1, CRITICAL 2,
\* UNKNOWN 3, and with no other code.
C5_ExitCodeIsSeverity ==
    (pc = "exited" /\ exc = NoExc)
        => /\ exitCode = status
           /\ exitCode \in {0, 1, 2, 3}
           /\ (msg[1] = "OK: ") = (exitCode = 0)
           /\ (msg[1] = "WARNING: ") = (exitCode = 1)
           /\ (msg[1] = "CRITICAL: ") = (exitCode = 2)
           /\ (msg[1] = "UNKNOWN: ") = (exitCode = 3)

C5_Witness ==
    /\ pc = "exited"
    /\ exc = NoExc
    /\ status = 3
    /\ exitCode = 3

----------------------------------------------------------------------------
(* C6 *)

\* C6: x509_checkend never raises: every outcome of the external invocation
\* gives a result value, and every failure to run gives Indeterminate (2).
C6_NeverRaises ==
    \A i \in 1..Len(calls) :
        /\ calls[i].check.raised = NoExc
        /\ calls[i].check.result \in {0, 1, 2}
        /\ calls[i].outcome.kind # "ran" => calls[i].check.result = 2

----------------------------------------------------------------------------
(* C7 *)

\* C7: whenever x509_checkend returns, it returns Indeterminate (2, with the
\* raw diagnostic text or exception description) if the tool could not run or
\* wrote on stderr, whatever the return code; it returns Expiring or
\* NotExpiring only if the tool ran and stderr stayed empty; an abnormal
\* return code is never reported as NotExpiring.
C7_DiagnosticsAreIndeterminate ==
    \A i \in 1..Len(calls) :
        LET o == calls[i].outcome
            c == calls[i].check
        IN  c.raised = NoExc
                => /\ (o.kind # "ran" \/ o.stderr # <<>>)
                        => (c.result = 2 /\ c.message = Reason(calls[i]))
                   /\ c.result \in {0, 1} => (o.kind = "ran" /\ o.stderr = <<>>)
                   /\ (o.kind = "ran" /\ o.returncode \notin {0, 1})
                        => c.result # 0

----------------------------------------------------------------------------
(* C8 *)

\* C8: a run of the script in which check_cert_expiry returned has written,
\* when it exits, exactly one line on stdout, and that line is the returned
\* message.
C8_ExactlyOneLine ==
    (pc = "exited" /\ exc = NoExc)
        => /\ stdout = msg \o <<NL>>
           /\ NumLines(stdout) = 1

----------------------------------------------------------------------------
(* C9 *)

\* C9: x509_checkend is invoked at most twice; the first invocation uses
\* crit * 86400 seconds; a second one happens only after the first returned
\* NotExpiring and uses warn * 86400 seconds; after Expiring or Indeterminate
\* the call is over with a call count of 1.
C9_AtMostTwoProbes ==
    /\ Len(calls) <= 2
    /\ Len(calls) >= 1 => calls[1].time = crit * 86400
    /\ Len(calls) = 2
        => /\ calls[1].check.raised = NoExc
           /\ calls[1].check.result = 0
           /\ calls[2].time = warn * 86400
    /\ (Len(calls) >= 1 /\ calls[1].check.result \in {1, 2})
        => (CallOver /\ Len(calls) = 1)
    /\ CallOver => Len(calls) >= 1

C9_Witness ==
    /\ CallOver
    /\ Len(calls) = 2
    /\ warn # crit
    /\ calls[1].time # calls[2].time

----------------------------------------------------------------------------
(* C10 *)

====
